---- MODULE Spec2Model ----
(***************************************************************************)
(* CRM -> Umbraco event synchronisation: the venue filter, the reconciler  *)
(* (compareEvents) and the document mapper of src/src/utils/event.utils.ts *)
(* together with the earlier copy of the same utilities kept in            *)
(* src/unnamed/part_000.                                                   *)
(*                                                                         *)
(* Conventions                                                             *)
(*  - a JavaScript string on which the code works character by character   *)
(*    (freshness markers, event ids, statuses, URLs) is a sequence of      *)
(*    one-character strings;                                               *)
(*  - an optional JavaScript value is a tagged record: Null, Undefined,    *)
(*    Str(chars), Arr(seq);                                                *)
(*  - an object whose key may be absent is a record whose DOMAIN lacks it. *)
(***************************************************************************)
EXTENDS Integers, Sequences, FiniteSets, TLC

VARIABLES
    ran,            \* the operations that have been applied to the inputs
    fEvents,        \* filterEventsByVenue: argument events
    fVenue,         \* filterEventsByVenue: argument venue
    fOut,           \* result of filterEventsByVenue (event.utils.ts)
    fOutLegacy,     \* result of filterEventsByVenue (unnamed/part_000)
    crmEvents,      \* compareEvents: argument crmEvents / the CRM feed
    umbracoEvents,  \* compareEvents: argument umbracoEvents / the CMS store
    syncResult,     \* result of the last compareEvents call
    runs,           \* number of completed synchronisation runs
    guidCalls,      \* calls of generateGuid made so far
    socialMedia,    \* buildSocialNetworksBlockList: argument socialMedia
    socialOut,      \* result of buildSocialNetworksBlockList
    mEvent,         \* the mappers' argument crmEvent
    mExisting,      \* mapCrmEventForUpdate: argument existingUmbracoEvent
    mParentId,      \* mapCrmEventToUmbraco: argument parentId
    createOut,      \* result of mapCrmEventToUmbraco
    updateOut,      \* result of mapCrmEventForUpdate, or what it threw
    legacyOut,      \* result of the mapCrmEventToUmbraco of part_000
    draws,          \* generateGuid: the draws of Math.random() of one call
    guidOut,        \* result of generateGuid
    heap,           \* the objects of the page blocks, by address
    returned,       \* addresses of the locale objects updatePageBlocks returned
    created         \* eventIds of the create payloads written so far

vars == <<ran, fEvents, fVenue, fOut, fOutLegacy, crmEvents, umbracoEvents,
          syncResult, runs, guidCalls, socialMedia, socialOut, mEvent,
          mExisting, mParentId, createOut, updateOut, legacyOut, draws, guidOut,
          heap, returned, created>>

(***************************************************************************)
(* Bounds of the model.                                                    *)
(***************************************************************************)
MaxEvents == 3      \* longest CRM input sequence
MaxFilter == 2     \* longest input of the venue filter
MaxCms == 2         \* longest CMS input sequence
MaxDateLen == 3     \* longest bare freshness marker drawn as an input
MaxRuns == 3        \* synchronisation runs explored
MaxUrlLen == 1      \* longest social-media URL drawn as an input

(***************************************************************************)
(* JavaScript values.                                                      *)
(***************************************************************************)
Null == [null |-> TRUE]
Undefined == [undefined |-> TRUE]
Str(s) == [str |-> s]
Arr(a) == [arr |-> a]

\* ToBoolean: null, undefined and the empty string are falsy.
Truthy(v) == /\ v # Null
             /\ v # Undefined
             /\ ("str" \in DOMAIN v => v.str # <<>>)

SeqsUpTo(S, n) == UNION {[1..k -> S] : k \in 0..n}

Quote == "\""
LineTerminators == {"\n"}

\* A string wrapped in one pair of double-quote characters (template
\* literal of event.utils.ts:712).
Wrap(s) == <<Quote>> \o s \o <<Quote>>

Digits == <<"0", "1", "2", "3", "4", "5", "6", "7", "8", "9">>

\* Number.prototype.toString() of a non-negative integer.
RECURSIVE NumberToString(_)
NumberToString(n) ==
    IF n < 10 THEN <<Digits[n + 1]>>
    ELSE NumberToString(n \div 10) \o <<Digits[(n % 10) + 1]>>

\* String.prototype.toLowerCase() on the letters the statuses are made of.
LowerChar(c) ==
    CASE c = "O" -> "o" [] c = "N" -> "n" [] c = "L" -> "l" [] c = "I" -> "i"
      [] c = "E" -> "e" [] c = "F" -> "f" [] OTHER -> c

toLowerCase(s) == [i \in 1..Len(s) |-> LowerChar(s[i])]

online == <<"o", "n", "l", "i", "n", "e">>

(***************************************************************************)
(* normalizeDateString: one String.prototype.replace with the pattern      *)
(* ^Q(. star)Q$ (Q the double-quote character), replacement $1.  It        *)
(* matches the whole string when it starts and ends with a quote character *)
(* (two distinct characters) and nothing between them is a line            *)
(* terminator, which the dot does not match; it is replaced by the text    *)
(* between the two quotes.  Otherwise the string is returned as it is.     *)
(***************************************************************************)
\* Variant: every quote character removed, wherever it stands.
normalizeDateStringAllQuotes(dateString) ==
    SelectSeq(dateString, LAMBDA c : c # Quote)

normalizeDateString(dateString) ==
    IF /\ Len(dateString) >= 2
       /\ dateString[1] = Quote
       /\ dateString[Len(dateString)] = Quote
       /\ \A i \in 2..(Len(dateString) - 1) : dateString[i] \notin LineTerminators
    THEN SubSeq(dateString, 2, Len(dateString) - 1)
    ELSE dateString

(***************************************************************************)
(* filterEventsByVenue, as Array.prototype.filter runs it: the elements    *)
(* for which the callback is truthy, in input order.                       *)
(***************************************************************************)
\* Array.prototype.includes on an array of strings.
includes(arr, x) == \E i \in 1..Len(arr) : arr[i] = x

VenueCallback(event, venue) ==
    /\ Truthy(event.eventVenues)
    /\ includes(event.eventVenues.arr, venue)
    /\ toLowerCase(event.WebsiteStatus) = online

RECURSIVE filterEventsByVenue(_, _)
filterEventsByVenue(events, venue) ==
    IF events = <<>> THEN <<>>
    ELSE (IF VenueCallback(Head(events), venue) THEN <<Head(events)>> ELSE <<>>)
             \o filterEventsByVenue(Tail(events), venue)

\* The copy in src/unnamed/part_000: the callback has no status test.
LegacyVenueCallback(event, venue) ==
    /\ Truthy(event.eventVenues)
    /\ includes(event.eventVenues.arr, venue)

RECURSIVE filterEventsByVenueLegacy(_, _)
filterEventsByVenueLegacy(events, venue) ==
    IF events = <<>> THEN <<>>
    ELSE (IF LegacyVenueCallback(Head(events), venue)
          THEN <<Head(events)>> ELSE <<>>)
             \o filterEventsByVenueLegacy(Tail(events), venue)

(***************************************************************************)
(* compareEvents.                                                          *)
(***************************************************************************)
\* Variant: the first CMS event with an eventId keeps its map entry.
RECURSIVE BuildUmbracoMapFirstWins(_, _)
BuildUmbracoMapFirstWins(events, map) ==
    IF events = <<>> THEN map
    ELSE BuildUmbracoMapFirstWins(
             Tail(events),
             [k \in DOMAIN map \cup {Head(events).eventId} |->
                 IF k \in DOMAIN map THEN map[k] ELSE Head(events)])

\* umbracoEvents.forEach(event => umbracoMap.set(event.eventId, event)):
\* a later entry with the same key replaces the earlier one.
RECURSIVE BuildUmbracoMap(_, _)
BuildUmbracoMap(events, map) ==
    IF events = <<>> THEN map
    ELSE BuildUmbracoMap(
             Tail(events),
             [k \in DOMAIN map \cup {Head(events).eventId} |->
                 IF k = Head(events).eventId THEN Head(events) ELSE map[k]])

EmptyMap == [k \in {} |-> Null]

EmptySyncResult == [toUpdate |-> <<>>, toCreate |-> <<>>]

\* Variant: the two markers compared as they are, without normalisation.
CompareStepRawDates(acc, crmEvent, umbracoMap) ==
    LET crmEventId == NumberToString(crmEvent.eventId)
    IN  IF crmEventId \in DOMAIN umbracoMap
        THEN IF crmEvent.lastUpdatedDate # umbracoMap[crmEventId].lastUpdatedDate
             THEN [acc EXCEPT !.toUpdate =
                      Append(@, [umbracoEvent |-> umbracoMap[crmEventId],
                                 crmEvent |-> crmEvent])]
             ELSE acc
        ELSE [acc EXCEPT !.toCreate = Append(@, crmEvent)]

\* One iteration of crmEvents.forEach(...) on the accumulated result.
CompareStep(acc, crmEvent, umbracoMap) ==
    LET crmEventId == NumberToString(crmEvent.eventId)
    IN  IF crmEventId \in DOMAIN umbracoMap
        THEN LET umbracoEvent == umbracoMap[crmEventId]
                 normalizedCrmDate ==
                     normalizeDateString(crmEvent.lastUpdatedDate)
                 normalizedUmbracoDate ==
                     normalizeDateString(umbracoEvent.lastUpdatedDate)
             IN  IF normalizedCrmDate # normalizedUmbracoDate
                 THEN [acc EXCEPT !.toUpdate =
                          Append(@, [umbracoEvent |-> umbracoEvent,
                                     crmEvent |-> crmEvent])]
                 ELSE acc
        ELSE [acc EXCEPT !.toCreate = Append(@, crmEvent)]

RECURSIVE CompareLoop(_, _, _)
CompareLoop(events, umbracoMap, acc) ==
    IF events = <<>> THEN acc
    ELSE CompareLoop(Tail(events), umbracoMap,
                     CompareStep(acc, Head(events), umbracoMap))

compareEvents(crm, umbraco) ==
    CompareLoop(crm, BuildUmbracoMap(umbraco, EmptyMap), EmptySyncResult)

(***************************************************************************)
(* generateGuid: every x and y of the template is replaced, left to right, *)
(* by a hexadecimal digit computed from one draw r = (Math.random()*16)|0: *)
(* r itself for an x, (r & 0x3) | 0x8 for a y.  rnd is the sequence of the *)
(* draws of one call.                                                      *)
(***************************************************************************)
GuidTemplate ==
    <<"x", "x", "x", "x", "x", "x", "x", "x", "-", "x", "x", "x", "x", "-",
      "4", "x", "x", "x", "-", "y", "x", "x", "x", "-",
      "x", "x", "x", "x", "x", "x", "x", "x", "x", "x", "x", "x">>

HexDigits == <<"0", "1", "2", "3", "4", "5", "6", "7",
               "8", "9", "a", "b", "c", "d", "e", "f">>

\* Which draw the replacement at position i of the template uses.
DrawIndexes ==
    [i \in 1..Len(GuidTemplate) |->
        Cardinality({j \in 1..i : GuidTemplate[j] \in {"x", "y"}})]

DrawIndex(i) == DrawIndexes[i]

\* Variant: the y of the template is replaced like an x.
generateGuidUnmasked(rnd) ==
    [i \in 1..Len(GuidTemplate) |->
        IF GuidTemplate[i] \in {"x", "y"}
        THEN HexDigits[rnd[DrawIndex(i)] + 1]
        ELSE GuidTemplate[i]]

generateGuid(rnd) ==
    [i \in 1..Len(GuidTemplate) |->
        CASE GuidTemplate[i] = "x" -> HexDigits[rnd[DrawIndex(i)] + 1]
          [] GuidTemplate[i] = "y" -> HexDigits[((rnd[DrawIndex(i)] % 4) + 8) + 1]
          [] OTHER -> GuidTemplate[i]]

\* The random source, taken to be fresh: the draws of the n-th call differ
\* from those of every other call (here in the last two digits).
RandomDraws(n) ==
    [k \in 1..DrawIndex(Len(GuidTemplate)) |->
        CASE k = DrawIndex(Len(GuidTemplate)) -> n % 16
          [] k = DrawIndex(Len(GuidTemplate)) - 1 -> (n \div 16) % 16
          [] OTHER -> 0]

\* guid.replace(/-/g, "")
removeHyphens(guid) == SelectSeq(guid, LAMBDA c : c # "-")

UdiPrefix ==
    <<"u", "m", "b", ":", "/", "/", "e", "l", "e", "m", "e", "n", "t", "/">>

\* `umb://element/${guidWithoutHyphens}`
UdiOf(guid) == UdiPrefix \o removeHyphens(guid)

\* The udi of the block whose identifier comes from call n of generateGuid.
ElementUdi(n) == UdiOf(generateGuid(RandomDraws(n)))

(***************************************************************************)
(* Block lists: { layout: { "Umbraco.BlockList": [...] }, contentData,     *)
(* settingsData: [] }.                                                     *)
(***************************************************************************)
BlockListKey == "Umbraco.BlockList"

BlockListStructure(layout, contentData) ==
    [layout |-> [k \in {BlockListKey} |-> layout],
     contentData |-> contentData,
     settingsData |-> <<>>]

LayoutOf(list) == list.layout[BlockListKey]

(***************************************************************************)
(* buildSocialNetworksBlockList.                                           *)
(***************************************************************************)
WhiteSpace == {" ", "\t", "\n"}

\* String.prototype.trim()
RECURSIVE trimStart(_)
trimStart(s) ==
    IF s # <<>> /\ Head(s) \in WhiteSpace THEN trimStart(Tail(s)) ELSE s

RECURSIVE trimEnd(_)
trimEnd(s) ==
    IF s # <<>> /\ s[Len(s)] \in WhiteSpace
    THEN trimEnd(SubSeq(s, 1, Len(s) - 1)) ELSE s

trim(s) == trimEnd(trimStart(s))

\* socialMedia?.key
OptionalField(obj, key) ==
    IF obj \in {Null, Undefined} THEN Undefined ELSE obj[key]

socialNetworks(media) ==
    <<[key |-> "facebook", name |-> "Facebook",
       url |-> OptionalField(media, "facebook")],
      [key |-> "linkedIn", name |-> "LinkedIn",
       url |-> OptionalField(media, "linkedIn")],
      [key |-> "instagram", name |-> "Instagram",
       url |-> OptionalField(media, "instagram")],
      [key |-> "youtube", name |-> "Youtube",
       url |-> OptionalField(media, "youtube")],
      [key |-> "tiktok", name |-> "TikTok",
       url |-> OptionalField(media, "tiktok")]>>

\* Variant: any non-empty URL counts, blank or not.
HasValidUrlNoTrim(network) == Truthy(network.url)

\* network.url && network.url.trim() !== ""
HasValidUrl(network) ==
    /\ Truthy(network.url)
    /\ trim(network.url.str) # <<>>

SocialNetworkTypeKey == "93f63d80-3828-4be7-9043-143bd100ca14"

SocialLayoutEntry(udi) == [contentUdi |-> udi]

SocialContentEntry(network, udi) ==
    [contentTypeKey |-> SocialNetworkTypeKey,
     udi |-> udi,
     socialNetwork |-> <<network.name>>,
     link |-> <<[icon |-> "icon-link", name |-> Null, nodeName |-> Null,
                 published |-> TRUE, queryString |-> Null,
                 target |-> Str(<<"_blank">>), trashed |-> FALSE, udi |-> Null,
                 url |-> network.url]>>]

\* socialNetworks.forEach(...): acc holds layout, contentData and the
\* number of generateGuid calls made so far.
RECURSIVE SocialLoop(_, _)
SocialLoop(networks, acc) ==
    IF networks = <<>> THEN acc
    ELSE LET network == Head(networks)
             udi == ElementUdi(acc.calls + 1)
         IN  SocialLoop(
                 Tail(networks),
                 IF HasValidUrl(network)
                 THEN [layout |-> Append(acc.layout, SocialLayoutEntry(udi)),
                       contentData |->
                           Append(acc.contentData,
                                  SocialContentEntry(network, udi)),
                       calls |-> acc.calls + 1]
                 ELSE acc)

\* Returns the block list (value) and the generateGuid calls made (calls).
buildSocialNetworksBlockList(media, calls) ==
    LET done == SocialLoop(socialNetworks(media),
                           [layout |-> <<>>, contentData |-> <<>>,
                            calls |-> calls])
    IN  [value |-> BlockListStructure(done.layout, done.contentData),
         calls |-> done.calls]

(***************************************************************************)
(* buildPageBlocks.  The long literal texts of the static blocks are kept  *)
(* as their first words; the Arabic literals are written as (ar).          *)
(***************************************************************************)
HeroImageTypeKey == "fd8b22e5-6560-40ea-8f24-4da5ca390b91"
EventDescriptionTypeKey == "163c1761-234c-41f4-92e5-9d3d26186b79"
ImageGalleryTypeKey == "a56add81-856e-4004-8e61-30cc04962297"
ContentCardTypeKey == "c12716ad-f907-4621-b2e4-1b242d63974e"
DestinationListTypeKey == "f4965fd3-b550-41c3-997e-1fd7059fe015"

\* value || fallback
OrElse(value, fallback) == IF Truthy(value) THEN value ELSE fallback

\* { markup, blocks: { layout: null, contentData: [], settingsData: [] } }
RichText(markup) ==
    [markup |-> markup,
     blocks |-> [layout |-> Null, contentData |-> <<>>, settingsData |-> <<>>]]

\* `<p>${crmEvent.pageContent || ""}</p>`
DescriptionMarkup(crmEvent) ==
    <<"<p>">> \o OrElse(crmEvent.pageContent, Str(<<>>)).str \o <<"</p>">>

WebsiteLink(name, target, url) ==
    [icon |-> "icon-link", name |-> name, nodeName |-> Null,
     published |-> TRUE, queryString |-> Null, target |-> target,
     trashed |-> FALSE, udi |-> Null, url |-> url]

\* The record with no key: what ...(falsy) spreads into an object literal.
NoFields == [k \in {} |-> Null]

HeroImageBlock(udi) ==
    [contentTypeKey |-> HeroImageTypeKey, udi |-> udi, image |-> <<>>]

\* Block 2 of either locale; target is the link target the locale uses.
EventDescriptionBlock(crmEvent, udi, social, target) ==
    [contentTypeKey |-> EventDescriptionTypeKey,
     udi |-> udi,
     description |-> RichText(DescriptionMarkup(crmEvent)),
     organiserLogo |-> <<>>,
     organiserName |-> OrElse(crmEvent.eventOrganiser, Str(<<>>)),
     socialNetworks |-> social]
    @@ (IF Truthy(crmEvent.websiteURL)
        THEN [organiserWebsite |->
                 <<WebsiteLink(Null, target, crmEvent.websiteURL)>>]
        ELSE NoFields)

ImageGalleryBlock(udi) ==
    [contentTypeKey |-> ImageGalleryTypeKey, udi |-> udi, images |-> <<>>]

ContentCardBlock(udi, title, subtitle, description, name, url, leftImage) ==
    [contentTypeKey |-> ContentCardTypeKey,
     udi |-> udi,
     logo |-> <<>>,
     title |-> title,
     subtitle |-> RichText(<<subtitle>>),
     description |-> RichText(<<description>>),
     link |-> <<[icon |-> "icon-article color-deep-purple",
                 name |-> name, published |-> TRUE, url |-> url]>>,
     video |-> Str(<<>>),
     leftImage |-> leftImage,
     locationTitle |-> Str(<<>>),
     locationItems |-> Str(<<>>)]

DestinationListBlock(udi, title, subtitle, items) ==
    [contentTypeKey |-> DestinationListTypeKey,
     udi |-> udi,
     title |-> title,
     subtitle |-> subtitle,
     description |-> Str(<<>>),
     displayNotch |-> "0",
     items |-> items]

LayoutEntries(udis) == [i \in 1..Len(udis) |-> [contentUdi |-> udis[i]]]

\* const socialNetworks = buildSocialNetworksBlockList(...): one list, used
\* by the Event-Description block of both locales.
SharedSocial(crmEvent, calls) ==
    LET built == buildSocialNetworksBlockList(crmEvent.socialMedia, calls)
    IN  [en |-> built.value, ar |-> built.value, calls |-> built.calls]

\* Variant: the Arabic layout leaves out the Image-Gallery reference.
ArabicLayoutNoGallery(udis) ==
    LayoutEntries(<<udis[1], udis[2], udis[4], udis[5], udis[6]>>)

ArabicLayout(udis) == LayoutEntries(udis)

englishBlocks(crmEvent, udis, social) ==
    BlockListStructure(
        LayoutEntries(udis),
        <<HeroImageBlock(udis[1]),
          EventDescriptionBlock(crmEvent, udis[2], social, Null),
          ContentCardBlock(udis[3], "Getting Here",
                           "<p>Fastest, easiest route to the venue</p>",
                           "<p>Benefiting from Dubai South's ...</p>",
                           "Plan your visit", "/dec/getting-here/", "1"),
          DestinationListBlock(udis[4], "Destination Dubai",
                               "Explore what's happening around Dubai this month",
                               Str(<<>>)),
          ContentCardBlock(udis[5], "Destination Dubai",
                           "<p>Make the most of your time in Dubai<br><br></p>",
                           "<p>Experience the best of Dubai, ...</p>",
                           "Find out more", "/dec/destination-dubai/", "0")>>)

arabicBlocks(crmEvent, udis, social) ==
    BlockListStructure(
        ArabicLayout(udis),
        <<HeroImageBlock(udis[1]),
          EventDescriptionBlock(crmEvent, udis[2], social,
                                Str(<<"_blank">>)),
          ImageGalleryBlock(udis[3]),
          ContentCardBlock(udis[4], "Getting Here (ar)",
                           "<p class=p1>subtitle (ar)</p>",
                           "<p>description (ar)</p>",
                           "Plan your visit (ar)", "/dec/getting-here/", "1"),
          DestinationListBlock(udis[5], "Destination Dubai (ar)",
                               "subtitle (ar)", BlockListStructure(<<>>, <<>>)),
          ContentCardBlock(udis[6], "Destination Dubai (ar)",
                           "<p>subtitle (ar)</p>",
                           "<p>description (ar)</p>",
                           "Find out more (ar)", "/dec/destination-dubai/",
                           "0")>>)

Localized(en, ar) == [k \in {"en-US", "ar"} |-> IF k = "en-US" THEN en ELSE ar]

\* Eleven generateGuid calls (five English blocks, then six Arabic ones),
\* then the Social-Networks list.
buildPageBlocks(crmEvent, calls) ==
    LET enUdis == [i \in 1..5 |-> ElementUdi(calls + i)]
        arUdis == [i \in 1..6 |-> ElementUdi(calls + 5 + i)]
        social == SharedSocial(crmEvent, calls + 11)
    IN  [value |-> Localized(englishBlocks(crmEvent, enUdis, social.en),
                             arabicBlocks(crmEvent, arUdis, social.ar)),
         calls |-> social.calls]

(***************************************************************************)
(* updatePageBlocks.  A call that throws has the value Threw(error).       *)
(***************************************************************************)
Threw(error) == [threw |-> error]

IsThrow(v) == "threw" \in DOMAIN v

\* obj[key] of a JavaScript object: undefined when the key is absent.
Get(obj, key) == IF key \in DOMAIN obj THEN obj[key] ELSE Undefined

\* JSON.stringify(v): undefined for undefined, otherwise the text of v.
JsonStringify(v) == IF v = Undefined THEN Undefined ELSE [json |-> v]

\* JSON.parse(text): undefined is read as the text undefined, which is no
\* JSON; otherwise a new value equal to the one the text was made from.
JsonParse(text) ==
    IF text = Undefined THEN Threw("SyntaxError") ELSE text.json

\* obj.key = value
SetField(obj, key, value) ==
    [k \in DOMAIN obj \cup {key} |-> IF k = key THEN value ELSE obj[k]]

\* delete obj.key
DeleteField(obj, key) == [k \in DOMAIN obj \ {key} |-> obj[k]]

\* The assignments to eventDescBlock (lines 564-590 and 602-628).
UpdateEventDescBlock(block, crmEvent, social, target) ==
    LET b1 == SetField(block, "description",
                       RichText(DescriptionMarkup(crmEvent)))
        b2 == SetField(b1, "organiserName",
                       OrElse(crmEvent.eventOrganiser, Str(<<>>)))
        b3 == IF Truthy(crmEvent.websiteURL)
              THEN SetField(b2, "organiserWebsite",
                            <<WebsiteLink(Null, target, crmEvent.websiteURL)>>)
              ELSE DeleteField(b2, "organiserWebsite")
    IN  SetField(b3, "socialNetworks", social)

\* if (updated.contentData && updated.contentData[1]) { ... } on the clone
\* of one locale; reading .contentData of null throws.
UpdateLocale(blocks, crmEvent, social, target) ==
    IF blocks = Null THEN Threw("TypeError")
    ELSE IF /\ "contentData" \in DOMAIN blocks
            /\ Len(blocks.contentData) >= 2
            /\ blocks.contentData[2] # Null
         THEN [blocks EXCEPT !.contentData[2] =
                  UpdateEventDescBlock(@, crmEvent, social, target)]
         ELSE blocks

updatePageBlocks(existingPageBlocks, crmEvent, calls) ==
    LET social == buildSocialNetworksBlockList(crmEvent.socialMedia, calls)
        updatedEnglishBlocks ==
            JsonParse(JsonStringify(Get(existingPageBlocks, "en-US")))
        updatedArabicBlocks ==
            JsonParse(JsonStringify(Get(existingPageBlocks, "ar")))
        en == UpdateLocale(updatedEnglishBlocks, crmEvent, social.value, Null)
        ar == UpdateLocale(updatedArabicBlocks, crmEvent, social.value,
                           Str(<<"_blank">>))
    IN  [value |->
             CASE IsThrow(updatedEnglishBlocks) -> updatedEnglishBlocks
               [] IsThrow(updatedArabicBlocks) -> updatedArabicBlocks
               [] IsThrow(en) -> en
               [] IsThrow(ar) -> ar
               [] OTHER -> Localized(en, ar),
         calls |-> social.calls]

(***************************************************************************)
(* mapCrmEventToUmbraco and mapCrmEventForUpdate.                          *)
(***************************************************************************)
Invariant(v) == [k \in {"$invariant"} |-> v]

Singleton(v) == IF Truthy(v) THEN <<v>> ELSE <<>>

\* The fields both mappers build alike (lines 650-728 and 752-828);
\* social is the list built for organiserSocialNetworks.
CommonFields(crmEvent, social) ==
    [name |-> Localized(crmEvent.title, crmEvent.title),
     title |-> Localized(crmEvent.title, crmEvent.title),
     description |-> Localized(OrElse(crmEvent.pageContent, Str(<<>>)),
                               OrElse(crmEvent.pageContent, Str(<<>>))),
     metadataTitle |-> Localized(crmEvent.title, crmEvent.title),
     metadataDescription |->
         Localized(OrElse(crmEvent.pageContent, Str(<<>>)),
                   OrElse(crmEvent.pageContent, Str(<<>>))),
     metadataKeywords |-> Localized(Str(<<>>), Str(<<>>)),
     date |-> Invariant(crmEvent.startDate),
     category |-> Invariant(Singleton(crmEvent.eventType)),
     endDate |-> Invariant(crmEvent.endDate),
     organiserName |-> Invariant(OrElse(crmEvent.eventOrganiser, Str(<<>>))),
     organiserSocialNetworks |-> Invariant(social),
     eventId |-> Invariant(NumberToString(crmEvent.eventId)),
     lastUpdatedDate |-> Invariant(Wrap(crmEvent.lastUpdatedDate)),
     location |-> Invariant(OrElse(crmEvent.location, Null)),
     eventVenue |-> Invariant(OrElse(crmEvent.eventVenues, Arr(<<>>))),
     newEventVenue |-> Invariant(Arr(<<>>)),
     audience |-> Invariant(Singleton(crmEvent.eventAudiences)),
     industry |-> Invariant(OrElse(crmEvent.eventSectors, Arr(<<>>)))]
    @@ (IF Truthy(crmEvent.websiteURL)
        THEN [organiserWebsite |->
                 Invariant(<<WebsiteLink(crmEvent.websiteURL, Null,
                                         crmEvent.websiteURL)>>)]
        ELSE NoFields)

\* Variant: the parentId key is always written.
WithParentIdAlways(baseData, parentId) ==
    baseData @@ [parentId |-> parentId]

\* if (parentId) return { ...baseData, parentId }; return baseData;
WithParentId(baseData, parentId) ==
    IF Truthy(parentId) THEN baseData @@ [parentId |-> parentId]
    ELSE baseData

mapCrmEventToUmbraco(crmEvent, parentId, calls) ==
    LET social == buildSocialNetworksBlockList(crmEvent.socialMedia, calls)
        blocks == buildPageBlocks(crmEvent, social.calls)
        baseData ==
            CommonFields(crmEvent, social.value)
            @@ [contentTypeAlias |-> "decEvent", pageBlocks |-> blocks.value]
    IN  [value |-> WithParentId(baseData, parentId), calls |-> blocks.calls]

\* Variant: the update payload carries contentTypeAlias as the create one.
mapCrmEventForUpdateWithAlias(crmEvent, existingUmbracoEvent, calls) ==
    LET social == buildSocialNetworksBlockList(crmEvent.socialMedia, calls)
        blocks ==
            IF Truthy(Get(existingUmbracoEvent, "pageBlocks"))
            THEN updatePageBlocks(existingUmbracoEvent.pageBlocks, crmEvent,
                                  social.calls)
            ELSE buildPageBlocks(crmEvent, social.calls)
    IN  [value |->
             IF IsThrow(blocks.value) THEN blocks.value
             ELSE CommonFields(crmEvent, social.value)
                      @@ [contentTypeAlias |-> "decEvent",
                          pageBlocks |-> blocks.value],
         calls |-> blocks.calls]

\* Variant: without existing page blocks the update carries empty lists.
mapCrmEventForUpdateNoFallback(crmEvent, existingUmbracoEvent, calls) ==
    LET social == buildSocialNetworksBlockList(crmEvent.socialMedia, calls)
        blocks ==
            IF Truthy(Get(existingUmbracoEvent, "pageBlocks"))
            THEN updatePageBlocks(existingUmbracoEvent.pageBlocks, crmEvent,
                                  social.calls)
            ELSE [value |-> Localized(BlockListStructure(<<>>, <<>>),
                                      BlockListStructure(<<>>, <<>>)),
                  calls |-> social.calls]
    IN  [value |->
             IF IsThrow(blocks.value) THEN blocks.value
             ELSE CommonFields(crmEvent, social.value)
                      @@ [pageBlocks |-> blocks.value],
         calls |-> blocks.calls]

mapCrmEventForUpdate(crmEvent, existingUmbracoEvent, calls) ==
    LET social == buildSocialNetworksBlockList(crmEvent.socialMedia, calls)
        blocks ==
            IF Truthy(Get(existingUmbracoEvent, "pageBlocks"))
            THEN updatePageBlocks(existingUmbracoEvent.pageBlocks, crmEvent,
                                  social.calls)
            ELSE buildPageBlocks(crmEvent, social.calls)
    IN  [value |->
             IF IsThrow(blocks.value) THEN blocks.value
             ELSE CommonFields(crmEvent, social.value)
                      @@ [pageBlocks |-> blocks.value],
         calls |-> blocks.calls]

(***************************************************************************)
(* updatePageBlocks on objects.  JavaScript objects are shared by          *)
(* reference: the heap maps an address to the object there, a locale       *)
(* object holds the addresses of its blocks in contentData, and a          *)
(* reference is [ref |-> address], Null or Undefined.  An array is kept    *)
(* with the object that holds it; the fields of a block are values.        *)
(***************************************************************************)
Ref(address) == [ref |-> address]

\* New objects for the locale value list, the blocks first and in order;
\* the reference to the new locale object.
StoreLocale(h, list) ==
    IF list \in {Null, Undefined} THEN [heap |-> h, ref |-> list]
    ELSE IF "contentData" \in DOMAIN list
         THEN [heap |->
                   Append(h \o list.contentData,
                          [list EXCEPT
                              !.contentData =
                                  [i \in 1..Len(@) |-> Len(h) + i]]),
               ref |-> Ref(Len(h) + Len(list.contentData) + 1)]
         ELSE [heap |-> Append(h, list), ref |-> Ref(Len(h) + 1)]

\* The value a reference stands for, blocks included.
Load(h, r) ==
    IF r \in {Null, Undefined} THEN r
    ELSE IF "contentData" \in DOMAIN h[r.ref]
         THEN [h[r.ref] EXCEPT
                  !.contentData = [i \in 1..Len(@) |-> h[@[i]]]]
         ELSE h[r.ref]

\* The addresses of the objects a reference leads to.
Reachable(h, r) ==
    IF r \in {Null, Undefined} THEN {}
    ELSE {r.ref} \cup
             (IF "contentData" \in DOMAIN h[r.ref]
              THEN {h[r.ref].contentData[i] :
                        i \in 1..Len(h[r.ref].contentData)}
              ELSE {})

\* Variant: no copy is made, the existing object itself is returned.
JsonCloneShared(h, r) ==
    IF r = Undefined THEN [heap |-> h, ref |-> Threw("SyntaxError")]
    ELSE [heap |-> h, ref |-> r]

\* JSON.parse(JSON.stringify(x)): the text of the value of x, read back
\* into new objects.
JsonClone(h, r) ==
    IF IsThrow(JsonParse(JsonStringify(Load(h, r))))
    THEN [heap |-> h, ref |-> JsonParse(JsonStringify(Load(h, r)))]
    ELSE StoreLocale(h, JsonParse(JsonStringify(Load(h, r))))

\* The if-block of one locale, writing to the object contentData[1] refers
\* to.
UpdateLocaleOnHeap(h, r, crmEvent, social, target) ==
    IF r = Null THEN [heap |-> h, ref |-> Threw("TypeError")]
    ELSE IF /\ "contentData" \in DOMAIN h[r.ref]
            /\ Len(h[r.ref].contentData) >= 2
         THEN [heap |->
                   [h EXCEPT ![h[r.ref].contentData[2]] =
                       UpdateEventDescBlock(@, crmEvent, social, target)],
               ref |-> r]
         ELSE [heap |-> h, ref |-> r]

\* The page blocks pageBlocks as objects: the references by locale.
StorePageBlocks(h, pageBlocks) ==
    LET en == StoreLocale(h, Get(pageBlocks, "en-US"))
        ar == StoreLocale(en.heap, Get(pageBlocks, "ar"))
    IN  [heap |-> ar.heap,
         value |-> [k \in DOMAIN pageBlocks |->
                       IF k = "en-US" THEN en.ref ELSE ar.ref]]

\* The references of page blocks replaced by the values they stand for.
LoadPageBlocks(h, pageBlocks) ==
    [k \in DOMAIN pageBlocks |-> Load(h, pageBlocks[k])]

\* A CMS document as objects: its pageBlocks hold references.
StoreDocument(h, document) ==
    IF "pageBlocks" \in DOMAIN document
    THEN LET stored == StorePageBlocks(h, document.pageBlocks)
         IN  [heap |-> stored.heap,
              value |-> [document EXCEPT !.pageBlocks = stored.value]]
    ELSE [heap |-> h, value |-> document]

(***************************************************************************)
(* The mapCrmEventToUmbraco of part_000: the same fields, organiserWebsite *)
(* written whatever websiteURL is, no pageBlocks.                          *)
(***************************************************************************)
LegacyBaseData(crmEvent, social) ==
    [organiserWebsite |->
        Invariant(<<WebsiteLink(crmEvent.websiteURL, Null,
                                crmEvent.websiteURL)>>),
     contentTypeAlias |-> "decEvent"]
    @@ CommonFields(crmEvent, social)

mapCrmEventToUmbracoLegacy(crmEvent, parentId, calls) ==
    LET social == buildSocialNetworksBlockList(crmEvent.socialMedia, calls)
    IN  [value |-> WithParentId(LegacyBaseData(crmEvent, social.value),
                                parentId),
         calls |-> social.calls]

(***************************************************************************)
(* The identity and freshness fields of the payloads.  Both mappers build  *)
(* them the same way: eventId is the CRM number rendered as a string, and  *)
(* lastUpdatedDate is the CRM marker put between two quote characters.     *)
(***************************************************************************)
\* Variant: the eventId is written with a leading zero.
PayloadEventIdPadded(crmEvent) == <<"0">> \o NumberToString(crmEvent.eventId)

PayloadEventId(crmEvent) == NumberToString(crmEvent.eventId)

PayloadLastUpdatedDate(crmEvent) == Wrap(crmEvent.lastUpdatedDate)

(***************************************************************************)
(* The CMS side of one synchronisation run: every created payload becomes  *)
(* a new CMS record, every update payload overwrites the record it was     *)
(* paired with.  Only the two fields compareEvents reads are kept.         *)
(***************************************************************************)
RECURSIVE CmsCreateAll(_, _)
CmsCreateAll(store, toCreate) ==
    IF toCreate = <<>> THEN store
    ELSE CmsCreateAll(
             Append(store,
                    [id |-> Len(store) + 1,
                     eventId |-> PayloadEventId(Head(toCreate)),
                     lastUpdatedDate |-> PayloadLastUpdatedDate(Head(toCreate))]),
             Tail(toCreate))

RECURSIVE CmsUpdateAll(_, _)
CmsUpdateAll(store, toUpdate) ==
    IF toUpdate = <<>> THEN store
    ELSE LET pair == Head(toUpdate)
         IN  CmsUpdateAll(
                 [i \in 1..Len(store) |->
                     IF store[i].id = pair.umbracoEvent.id
                     THEN [store[i] EXCEPT
                              !.eventId = PayloadEventId(pair.crmEvent),
                              !.lastUpdatedDate =
                                  PayloadLastUpdatedDate(pair.crmEvent)]
                     ELSE store[i]],
                 Tail(toUpdate))

CmsStore(store, result) ==
    CmsCreateAll(CmsUpdateAll(store, result.toUpdate), result.toCreate)

\* The eventId fields of the create payloads of one run, in order.
CreatedIds(result) ==
    [i \in 1..Len(result.toCreate) |-> PayloadEventId(result.toCreate[i])]

(***************************************************************************)
(* Input sets.                                                             *)
(***************************************************************************)
Venues == {"A", "B"}
VenueLists == {Null, Arr(<<>>), Arr(<<"A">>), Arr(<<"B">>), Arr(<<"A", "B">>)}
Statuses == {online,
             <<"O", "n", "l", "i", "n", "e">>,
             <<"O", "N", "L", "I", "N", "E">>,
             <<"o", "f", "f", "l", "i", "n", "e">>,
             <<>>}
FilterEvents == [eventVenues : VenueLists, WebsiteStatus : Statuses]

DateChars == {Quote, "a", "\n"}
Markers == SeqsUpTo(DateChars, MaxDateLen)
\* The markers of a CRM feed: timestamps, bare or in quotes, on one line.
FeedMarkers == SeqsUpTo(DateChars \ LineTerminators, MaxDateLen)

UrlChars == {" ", "u"}
UrlValues ==
    {Undefined, Null} \cup {Str(u) : u \in SeqsUpTo(UrlChars, MaxUrlLen)}
SocialMediaValues ==
    [facebook : UrlValues, linkedIn : UrlValues, instagram : UrlValues,
     youtube : UrlValues, tiktok : UrlValues]

\* CRM events for the mappers: the fields the page blocks depend on vary.
MapEvent(pageContent, websiteURL, media) ==
    [title |-> Str(<<"T">>),
     pageContent |-> pageContent,
     startDate |-> Str(<<"d", "1">>),
     endDate |-> Str(<<"d", "2">>),
     location |-> Null,
     eventAudiences |-> Null,
     eventSectors |-> Arr(<<>>),
     eventId |-> 12,
     eventType |-> Str(<<"e", "x", "p", "o">>),
     eventVenues |-> Arr(<<"A">>),
     eventOrganiser |-> Str(<<"o", "r", "g">>),
     websiteURL |-> websiteURL,
     socialMedia |-> media,
     lastUpdatedDate |-> <<"a">>]

Channels(fb, li, tk) ==
    [facebook |-> fb, linkedIn |-> li, instagram |-> Str(<<>>),
     youtube |-> Str(<<" ">>), tiktok |-> tk]

MapEvents ==
    {MapEvent(pc, url, media) :
        pc \in {Null, Str(<<"n", "e", "w">>)},
        url \in {Null, Str(<<>>), Str(<<"w">>)},
        media \in {Undefined,
                   Channels(Str(<<>>), Str(<<>>), Str(<<>>)),
                   Channels(Str(<<"f">>), Str(<<>>), Str(<<"t">>))}}

ParentIds == {Undefined, Str(<<>>), Str(<<"1", "2", "3">>)}

\* The event of the earlier run and the payload created for it then.
PrevEvent ==
    MapEvent(Str(<<"o", "l", "d">>), Str(<<"w", "0">>),
             Channels(Str(<<>>), Str(<<"l">>), Str(<<>>)))

CreatedBefore == mapCrmEventToUmbraco(PrevEvent, Undefined, 0)

\* Entries i and i+1 of a sequence exchanged.
SwapAt(s, i) ==
    [k \in 1..Len(s) |->
        IF k = i THEN s[i + 1] ELSE IF k = i + 1 THEN s[i] ELSE s[k]]

\* What has become of one locale's block list since it was created.
LocaleKinds ==
    {"intact", "edFirst", "edThird", "missing", "null", "noContentData",
     "empty", "one"}

Truncated(list, n) ==
    BlockListStructure(SubSeq(LayoutOf(list), 1, n),
                       SubSeq(list.contentData, 1, n))

LocaleAfter(list, kind) ==
    CASE kind = "intact" -> list
      [] kind = "edFirst" ->
             BlockListStructure(SwapAt(LayoutOf(list), 1),
                                SwapAt(list.contentData, 1))
      [] kind = "edThird" ->
             BlockListStructure(SwapAt(LayoutOf(list), 2),
                                SwapAt(list.contentData, 2))
      [] kind = "null" -> Null
      [] kind = "noContentData" ->
             [k \in DOMAIN list \ {"contentData"} |-> list[k]]
      [] kind = "empty" -> Truncated(list, 0)
      [] kind = "one" -> Truncated(list, 1)
      [] OTHER -> Undefined

PageBlocksAfter(enKind, arKind) ==
    [k \in (IF enKind = "missing" THEN {} ELSE {"en-US"})
               \cup (IF arKind = "missing" THEN {} ELSE {"ar"}) |->
        IF k = "en-US"
        THEN LocaleAfter(CreatedBefore.value.pageBlocks["en-US"], enKind)
        ELSE LocaleAfter(CreatedBefore.value.pageBlocks["ar"], arKind)]

ExistingDocument(fields) ==
    [id |-> 1,
     eventId |-> CreatedBefore.value.eventId["$invariant"],
     lastUpdatedDate |-> CreatedBefore.value.lastUpdatedDate["$invariant"]]
    @@ fields

ExistingDocuments ==
    {ExistingDocument(NoFields)}
        \cup {ExistingDocument([pageBlocks |-> PageBlocksAfter(en, ar)]) :
                 en \in LocaleKinds, ar \in LocaleKinds}

CrmIds == {1, 12}
CmsIds == {<<"1">>, <<"0", "1">>}
CmpDates == {<<"a">>, Wrap(<<"a">>), <<"b">>}
CmpCrmEvents == [eventId : CrmIds, lastUpdatedDate : CmpDates]
CmpCmsEvents == [eventId : CmsIds, lastUpdatedDate : CmpDates]

\* The CMS gives every record its own id: here its position in the store.
WithIds(s) ==
    [i \in 1..Len(s) |->
        [id |-> i, eventId |-> s[i].eventId,
         lastUpdatedDate |-> s[i].lastUpdatedDate]]

DistinctIds(s) == \A i, j \in 1..Len(s) : s[i].eventId = s[j].eventId => i = j

(***************************************************************************)
(* Initial states: one family of inputs per component.                     *)
(***************************************************************************)
IdleFilter == fEvents = <<>> /\ fVenue = "A" /\ fOut = <<>> /\ fOutLegacy = <<>>

EmptyBlockList == BlockListStructure(<<>>, <<>>)

NoPayload == [pending |-> TRUE]

IdleLegacy == legacyOut = NoPayload

IdleGuid == draws = <<>> /\ guidOut = <<>>

IdleHeap == heap = <<>> /\ returned = NoPayload

IdleCreated == created = <<>>

IdleMapper ==
    /\ mEvent = PrevEvent
    /\ mExisting = [id |-> 1]
    /\ mParentId = Undefined
    /\ createOut = NoPayload
    /\ updateOut = NoPayload
    /\ IdleLegacy
    /\ IdleGuid
    /\ IdleHeap
    /\ IdleCreated

IdleSocial ==
    /\ guidCalls = 0
    /\ socialMedia = Undefined
    /\ socialOut = EmptyBlockList
    /\ IdleMapper

IdleCompare ==
    /\ crmEvents = <<>>
    /\ umbracoEvents = <<>>
    /\ syncResult = EmptySyncResult
    /\ runs = 0

InitFilter ==
    /\ ran = {}
    /\ fEvents \in SeqsUpTo(FilterEvents, MaxFilter)
    /\ fVenue \in Venues
    /\ fOut = <<>>
    /\ fOutLegacy = <<>>
    /\ IdleCompare
    /\ IdleSocial

\* Arbitrary short CRM and CMS sequences, duplicates included.
InitCompareLists ==
    /\ crmEvents \in SeqsUpTo(CmpCrmEvents, MaxEvents)
    /\ umbracoEvents \in {WithIds(s) : s \in SeqsUpTo(CmpCmsEvents, MaxCms)}

\* One matched pair whose two markers are a marker m wrapped zero, one or
\* two times.
InitComparePair ==
    \E m \in Markers :
        \E x, y \in {m, Wrap(m), Wrap(Wrap(m))} :
            /\ crmEvents = <<[eventId |-> 1, lastUpdatedDate |-> x]>>
            /\ umbracoEvents =
                   <<[id |-> 1, eventId |-> <<"1">>, lastUpdatedDate |-> y]>>

\* One matched pair whose two markers are a marker m bare, in quotes, or
\* with a quote character on one end only.
InitCompareMalformed ==
    \E m \in Markers :
        \E x, y \in {m, Wrap(m), <<Quote>> \o m, m \o <<Quote>>} :
            /\ crmEvents = <<[eventId |-> 1, lastUpdatedDate |-> x]>>
            /\ umbracoEvents =
                   <<[id |-> 1, eventId |-> <<"1">>, lastUpdatedDate |-> y]>>

InitCompare ==
    /\ ran = {}
    /\ IdleFilter
    /\ InitCompareLists \/ InitComparePair \/ InitCompareMalformed
    /\ syncResult = EmptySyncResult
    /\ runs = 0
    /\ IdleSocial

\* A CRM feed with distinct event ids and a CMS that holds nothing yet or
\* one record of an earlier run.
InitSync ==
    /\ ran = {}
    /\ IdleFilter
    /\ crmEvents \in
           {s \in SeqsUpTo([eventId : CrmIds, lastUpdatedDate : FeedMarkers],
                           MaxEvents) : DistinctIds(s)}
    /\ umbracoEvents \in
           {WithIds(s) : s \in SeqsUpTo([eventId : {<<"1">>},
                                         lastUpdatedDate : {Wrap(<<"a">>)}], 1)}
    /\ syncResult = EmptySyncResult
    /\ runs = 0
    /\ IdleSocial

\* The CRM feeds of the runs of a changing CRM: distinct event ids, any
\* of the markers.
ChangingFeeds ==
    {s \in SeqsUpTo(CmpCrmEvents, MaxEvents) : DistinctIds(s)}

InitFeed ==
    /\ ran = {}
    /\ IdleFilter
    /\ crmEvents \in ChangingFeeds
    /\ umbracoEvents \in
           {WithIds(s) : s \in SeqsUpTo([eventId : {<<"1">>},
                                         lastUpdatedDate : {Wrap(<<"a">>)}], 1)}
    /\ syncResult = EmptySyncResult
    /\ runs = 0
    /\ IdleSocial

\* Any socialMedia value: absent, or the five channels each absent, null or
\* a short string of blanks and other characters.
InitSocial ==
    /\ ran = {}
    /\ IdleFilter
    /\ IdleCompare
    /\ guidCalls = 0
    /\ socialMedia \in {Undefined} \cup SocialMediaValues
    /\ socialOut = EmptyBlockList
    /\ IdleMapper

\* A CRM event to map and the CMS document of an earlier run: as created,
\* with its blocks moved by an editor, damaged, or without page blocks.
InitMap ==
    /\ ran = {}
    /\ IdleFilter
    /\ IdleCompare
    /\ guidCalls = CreatedBefore.calls
    /\ socialMedia = Undefined
    /\ socialOut = EmptyBlockList
    /\ mEvent \in MapEvents
    /\ mExisting \in ExistingDocuments
    /\ mParentId = Undefined
    /\ createOut = NoPayload
    /\ updateOut = NoPayload
    /\ IdleLegacy
    /\ IdleGuid
    /\ IdleHeap
    /\ IdleCreated

\* A CRM event for the three mappers; the CMS document has no page blocks.
InitLegacy ==
    /\ ran = {}
    /\ IdleFilter
    /\ IdleCompare
    /\ guidCalls = 0
    /\ socialMedia = Undefined
    /\ socialOut = EmptyBlockList
    /\ mEvent \in MapEvents
    /\ mExisting = ExistingDocument(NoFields)
    /\ mParentId = Undefined
    /\ createOut = NoPayload
    /\ updateOut = NoPayload
    /\ IdleLegacy
    /\ IdleGuid
    /\ IdleHeap
    /\ IdleCreated

\* The values (Math.random() * 16) | 0 can take.
DrawValues == 0..15

\* Outcomes of the random source for one call: the draw used for the y of
\* the template takes every value, the other draws run through the values
\* from a starting value v in steps of 0, 1 or 5.
GuidDraws ==
    {[k \in 1..DrawIndex(Len(GuidTemplate)) |->
         IF GuidTemplate[CHOOSE i \in 1..Len(GuidTemplate) :
                             DrawIndex(i) = k /\ GuidTemplate[i] \in {"x", "y"}]
                = "y"
         THEN y
         ELSE (v + k * step) % 16] :
        v \in DrawValues, y \in DrawValues, step \in {0, 1, 5}}

InitGuid ==
    /\ ran = {}
    /\ IdleFilter
    /\ IdleCompare
    /\ guidCalls = 0
    /\ socialMedia = Undefined
    /\ socialOut = EmptyBlockList
    /\ mEvent = PrevEvent
    /\ mExisting = [id |-> 1]
    /\ mParentId = Undefined
    /\ createOut = NoPayload
    /\ updateOut = NoPayload
    /\ IdleLegacy
    /\ draws \in GuidDraws
    /\ guidOut = <<>>
    /\ IdleHeap
    /\ IdleCreated

(***************************************************************************)
(* Actions.                                                                *)
(***************************************************************************)
FilterByVenue ==
    /\ "filter" \notin ran
    /\ fOut' = filterEventsByVenue(fEvents, fVenue)
    /\ ran' = ran \cup {"filter"}
    /\ UNCHANGED <<fEvents, fVenue, fOutLegacy, crmEvents, umbracoEvents,
                   syncResult, runs, guidCalls, socialMedia, socialOut,
                   mEvent, mExisting, mParentId, createOut, updateOut,
                   legacyOut, draws, guidOut, heap, returned, created>>

FilterByVenueLegacy ==
    /\ "legacy" \notin ran
    /\ fOutLegacy' = filterEventsByVenueLegacy(fEvents, fVenue)
    /\ ran' = ran \cup {"legacy"}
    /\ UNCHANGED <<fEvents, fVenue, fOut, crmEvents, umbracoEvents,
                   syncResult, runs, guidCalls, socialMedia, socialOut,
                   mEvent, mExisting, mParentId, createOut, updateOut,
                   legacyOut, draws, guidOut, heap, returned, created>>

Compare ==
    /\ "compare" \notin ran
    /\ syncResult' = compareEvents(crmEvents, umbracoEvents)
    /\ ran' = ran \cup {"compare"}
    /\ UNCHANGED <<fEvents, fVenue, fOut, fOutLegacy, crmEvents,
                   umbracoEvents, runs, guidCalls, socialMedia, socialOut,
                   mEvent, mExisting, mParentId, createOut, updateOut,
                   legacyOut, draws, guidOut, heap, returned, created>>

\* One whole run with the CRM unchanged: compare, then write every payload.
SyncRun ==
    /\ runs < MaxRuns
    /\ syncResult' = compareEvents(crmEvents, umbracoEvents)
    /\ umbracoEvents' = CmsStore(umbracoEvents, syncResult')
    /\ runs' = runs + 1
    /\ created' = created \o CreatedIds(syncResult')
    /\ ran' = ran \cup {"sync"}
    /\ UNCHANGED <<fEvents, fVenue, fOut, fOutLegacy, crmEvents, guidCalls,
                   socialMedia, socialOut, mEvent, mExisting, mParentId,
                   createOut, updateOut, legacyOut, draws, guidOut, heap, returned>>

BuildSocial ==
    /\ "social" \notin ran
    /\ LET built == buildSocialNetworksBlockList(socialMedia, guidCalls)
       IN  /\ socialOut' = built.value
           /\ guidCalls' = built.calls
    /\ ran' = ran \cup {"social"}
    /\ UNCHANGED <<fEvents, fVenue, fOut, fOutLegacy, crmEvents,
                   umbracoEvents, syncResult, runs, socialMedia, mEvent,
                   mExisting, mParentId, createOut, updateOut, legacyOut, draws,
                   guidOut, heap, returned, created>>

\* mapCrmEventToUmbraco(mEvent, parentId) for any of the parentId values.
MapCreate ==
    /\ "create" \notin ran
    /\ \E parentId \in ParentIds :
           LET mapped == mapCrmEventToUmbraco(mEvent, parentId, guidCalls)
           IN  /\ mParentId' = parentId
               /\ createOut' = mapped.value
               /\ guidCalls' = mapped.calls
    /\ ran' = ran \cup {"create"}
    /\ UNCHANGED <<fEvents, fVenue, fOut, fOutLegacy, crmEvents,
                   umbracoEvents, syncResult, runs, socialMedia, socialOut,
                   mEvent, mExisting, updateOut, legacyOut, draws, guidOut, heap,
                   returned, created>>

\* mapCrmEventForUpdate(mEvent, mExisting)
MapUpdate ==
    /\ "update" \notin ran
    /\ LET mapped == mapCrmEventForUpdate(mEvent, mExisting, guidCalls)
       IN  /\ updateOut' = mapped.value
           /\ guidCalls' = mapped.calls
    /\ ran' = ran \cup {"update"}
    /\ UNCHANGED <<fEvents, fVenue, fOut, fOutLegacy, crmEvents,
                   umbracoEvents, syncResult, runs, socialMedia, socialOut,
                   mEvent, mExisting, mParentId, createOut, legacyOut, draws,
                   guidOut, heap, returned, created>>

\* mapCrmEventToUmbraco(mEvent, parentId) of part_000
MapCreateLegacy ==
    /\ "createLegacy" \notin ran
    /\ \E parentId \in ParentIds :
           LET mapped ==
                   mapCrmEventToUmbracoLegacy(mEvent, parentId, guidCalls)
           IN  /\ legacyOut' = mapped.value
               /\ guidCalls' = mapped.calls
    /\ ran' = ran \cup {"createLegacy"}
    /\ UNCHANGED <<fEvents, fVenue, fOut, fOutLegacy, crmEvents,
                   umbracoEvents, syncResult, runs, socialMedia, socialOut,
                   mEvent, mExisting, mParentId, createOut, updateOut, draws,
                   guidOut, heap, returned, created>>

\* generateGuid() with the random source producing draws
GenerateGuid ==
    /\ "guid" \notin ran
    /\ guidOut' = generateGuid(draws)
    /\ guidCalls' = guidCalls + 1
    /\ ran' = ran \cup {"guid"}
    /\ UNCHANGED <<fEvents, fVenue, fOut, fOutLegacy, crmEvents,
                   umbracoEvents, syncResult, runs, socialMedia, socialOut,
                   mEvent, mExisting, mParentId, createOut, updateOut,
                   legacyOut, draws, heap, returned, created>>

\* Between two runs the CRM changes: events come, go, or get new markers.
FeedChange ==
    /\ runs < MaxRuns
    /\ crmEvents' \in ChangingFeeds \ {crmEvents}
    /\ UNCHANGED <<ran, fEvents, fVenue, fOut, fOutLegacy, umbracoEvents,
                   syncResult, runs, guidCalls, socialMedia, socialOut,
                   mEvent, mExisting, mParentId, createOut, updateOut,
                   legacyOut, draws, guidOut, heap, returned, created>>

NextFilter == FilterByVenue \/ FilterByVenueLegacy
NextCompare == Compare
NextSync == SyncRun
NextSocial == BuildSocial
NextMap == MapCreate \/ MapUpdate
NextLegacy == MapCreate \/ MapUpdate \/ MapCreateLegacy
NextGuid == GenerateGuid
NextFeed == SyncRun \/ FeedChange

SpecFilter == InitFilter /\ [][NextFilter]_vars
SpecCompare == InitCompare /\ [][NextCompare]_vars
SpecSync == InitSync /\ [][NextSync]_vars
SpecSocial == InitSocial /\ [][NextSocial]_vars
SpecMap == InitMap /\ [][NextMap]_vars
SpecLegacy == InitLegacy /\ [][NextLegacy]_vars
SpecGuid == InitGuid /\ [][NextGuid]_vars
SpecFeed == InitFeed /\ [][NextFeed]_vars

(***************************************************************************)
(* mapCrmEventForUpdate on objects, statement by statement (ran holds the  *)
(* statements done), and a caller that changes the payload it was given.   *)
(***************************************************************************)
CopyEvents ==
    {MapEvent(Str(<<"n", "e", "w">>), url,
              Channels(Str(<<"f">>), Str(<<>>), Str(<<"t">>))) :
        url \in {Null, Str(<<"w">>)}}

\* The existing document as the caller holds it, and where the CRM event is.
ExistingStored == StoreDocument(<<>>, mExisting)
CrmAddress == Len(ExistingStored.heap) + 1

InitCopy ==
    /\ ran = {}
    /\ IdleFilter
    /\ IdleCompare
    /\ guidCalls = CreatedBefore.calls
    /\ socialMedia = Undefined
    /\ socialOut = EmptyBlockList
    /\ mEvent \in CopyEvents
    /\ mExisting \in ExistingDocuments
    /\ mParentId = Undefined
    /\ createOut = NoPayload
    /\ updateOut = NoPayload
    /\ IdleLegacy
    /\ IdleGuid
    /\ heap = Append(ExistingStored.heap, mEvent)
    /\ returned = NoPayload
    /\ IdleCreated

\* The addresses of the objects of the locales returned holds.
ReturnedObjects ==
    IF "pageBlocks" \in DOMAIN returned
    THEN UNION {Reachable(heap, returned.pageBlocks[k]) :
                    k \in DOMAIN returned.pageBlocks}
    ELSE {}

\* mapCrmEventForUpdate(crmEvent, existingUmbracoEvent) when the document
\* has no pageBlocks: buildPageBlocks makes new objects.  updateOut is the
\* same call on values.
BuildFallback ==
    /\ ran = {}
    /\ ~Truthy(Get(ExistingStored.value, "pageBlocks"))
    /\ LET social == buildSocialNetworksBlockList(heap[CrmAddress].socialMedia,
                                                  guidCalls)
           built == buildPageBlocks(heap[CrmAddress], social.calls)
           stored == StorePageBlocks(heap, built.value)
       IN  /\ heap' = stored.heap
           /\ returned' = CommonFields(heap[CrmAddress], social.value)
                              @@ [pageBlocks |-> stored.value]
           /\ guidCalls' = built.calls
    /\ updateOut' = mapCrmEventForUpdate(mEvent, mExisting, guidCalls).value
    /\ ran' = ran \cup {"update"}
    /\ UNCHANGED <<fEvents, fVenue, fOut, fOutLegacy, crmEvents,
                   umbracoEvents, syncResult, runs, socialMedia, socialOut,
                   mEvent, mExisting, mParentId, createOut, legacyOut, draws,
                   guidOut, created>>

\* mapCrmEventForUpdate up to line 557 of updatePageBlocks: socialNetworks
\* of the mapper (kept in returned) and of updatePageBlocks (socialOut), and
\* the two copies.  updateOut is the whole call on values.
CloneLocales ==
    /\ ran = {}
    /\ Truthy(Get(ExistingStored.value, "pageBlocks"))
    /\ LET outer == buildSocialNetworksBlockList(heap[CrmAddress].socialMedia,
                                                 guidCalls)
           social == buildSocialNetworksBlockList(heap[CrmAddress].socialMedia,
                                                  outer.calls)
           updatedEnglishBlocks ==
               JsonClone(heap, Get(ExistingStored.value.pageBlocks, "en-US"))
           updatedArabicBlocks ==
               JsonClone(updatedEnglishBlocks.heap,
                         Get(ExistingStored.value.pageBlocks, "ar"))
       IN  /\ socialOut' = social.value
           /\ guidCalls' = social.calls
           /\ CASE IsThrow(updatedEnglishBlocks.ref) ->
                       /\ heap' = heap
                       /\ returned' = updatedEnglishBlocks.ref
                [] IsThrow(updatedArabicBlocks.ref) ->
                       /\ heap' = updatedEnglishBlocks.heap
                       /\ returned' = updatedArabicBlocks.ref
                [] OTHER ->
                       /\ heap' = updatedArabicBlocks.heap
                       /\ returned' =
                              [socialNetworks |-> outer.value,
                               pageBlocks |->
                                   Localized(updatedEnglishBlocks.ref,
                                             updatedArabicBlocks.ref)]
    /\ updateOut' = mapCrmEventForUpdate(mEvent, mExisting, guidCalls).value
    /\ ran' = ran \cup {"clone"}
    /\ UNCHANGED <<fEvents, fVenue, fOut, fOutLegacy, crmEvents,
                   umbracoEvents, syncResult, runs, socialMedia, mEvent,
                   mExisting, mParentId, createOut, legacyOut, draws, guidOut,
                   created>>

\* Lines 559-595: the English if-block.
UpdateEnglish ==
    /\ "clone" \in ran
    /\ "english" \notin ran
    /\ ~IsThrow(returned)
    /\ LET updated == UpdateLocaleOnHeap(heap, returned.pageBlocks["en-US"],
                                         heap[CrmAddress], socialOut, Null)
       IN  /\ heap' = updated.heap
           /\ returned' = IF IsThrow(updated.ref) THEN updated.ref
                          ELSE returned
    /\ ran' = ran \cup {"english"}
    /\ UNCHANGED <<fEvents, fVenue, fOut, fOutLegacy, crmEvents,
                   umbracoEvents, syncResult, runs, guidCalls, socialMedia,
                   socialOut, mEvent, mExisting, mParentId, createOut,
                   updateOut, legacyOut, draws, guidOut, created>>

\* Lines 597-633: the Arabic if-block.
UpdateArabic ==
    /\ "english" \in ran
    /\ "arabic" \notin ran
    /\ ~IsThrow(returned)
    /\ LET updated == UpdateLocaleOnHeap(heap, returned.pageBlocks["ar"],
                                         heap[CrmAddress], socialOut,
                                         Str(<<"_blank">>))
       IN  /\ heap' = updated.heap
           /\ returned' = IF IsThrow(updated.ref) THEN updated.ref
                          ELSE returned
    /\ ran' = ran \cup {"arabic"}
    /\ UNCHANGED <<fEvents, fVenue, fOut, fOutLegacy, crmEvents,
                   umbracoEvents, syncResult, runs, guidCalls, socialMedia,
                   socialOut, mEvent, mExisting, mParentId, createOut,
                   updateOut, legacyOut, draws, guidOut, created>>

\* Lines 635-638 and the return of mapCrmEventForUpdate: the payload with
\* the two copies as its pageBlocks.
ReturnPayload ==
    /\ "arabic" \in ran
    /\ "update" \notin ran
    /\ ~IsThrow(returned)
    /\ returned' = CommonFields(heap[CrmAddress], returned.socialNetworks)
                       @@ [pageBlocks |-> returned.pageBlocks]
    /\ ran' = ran \cup {"update"}
    /\ UNCHANGED <<fEvents, fVenue, fOut, fOutLegacy, crmEvents,
                   umbracoEvents, syncResult, runs, guidCalls, socialMedia,
                   socialOut, mEvent, mExisting, mParentId, createOut,
                   updateOut, legacyOut, draws, guidOut, heap, created>>

\* The caller writes a field of one object of the returned locales, or
\* empties the contentData of one of them.
ChangeReturned ==
    /\ "update" \in ran
    /\ "change" \notin ran
    /\ \E a \in ReturnedObjects :
           \/ heap' = [heap EXCEPT ![a] = SetField(@, "changed", TRUE)]
           \/ /\ "contentData" \in DOMAIN heap[a]
              /\ heap' = [heap EXCEPT ![a].contentData = <<>>]
    /\ ran' = ran \cup {"change"}
    /\ UNCHANGED <<fEvents, fVenue, fOut, fOutLegacy, crmEvents,
                   umbracoEvents, syncResult, runs, guidCalls, socialMedia,
                   socialOut, mEvent, mExisting, mParentId, createOut,
                   updateOut, legacyOut, draws, guidOut, returned, created>>

NextCopy ==
    \/ BuildFallback
    \/ CloneLocales
    \/ UpdateEnglish
    \/ UpdateArabic
    \/ ReturnPayload
    \/ ChangeReturned

SpecCopy == InitCopy /\ [][NextCopy]_vars

(***************************************************************************)
(* Vocabulary of the properties.                                           *)
(***************************************************************************)
Indices(s) == [i \in 1..Len(s) |-> i]

\* The elements of s at the indices that satisfy P, in order.
Pick(s, P(_)) ==
    LET idx == SelectSeq(Indices(s), P)
    IN  [k \in 1..Len(idx) |-> s[idx[k]]]

\* s starts and ends with a quote character (two distinct characters).
IsWrapped(s) == Len(s) >= 2 /\ s[1] = Quote /\ s[Len(s)] = Quote

HasLineTerminator(s) == \E i \in 1..Len(s) : s[i] \in LineTerminators

\* A marker that carries no wrapping of its own.
Plain(m) == ~IsWrapped(m) /\ ~HasLineTerminator(m)

\* The position of the CMS record that the lookup of CRM event e returns:
\* the last one in the CMS input with e's id as a string; 0 when none has it.
MatchIndex(e) ==
    LET hits == {j \in 1..Len(umbracoEvents) :
                    umbracoEvents[j].eventId = NumberToString(e.eventId)}
    IN  IF hits = {} THEN 0 ELSE CHOOSE j \in hits : \A k \in hits : k <= j

Unmatched(i) == MatchIndex(crmEvents[i]) = 0

Stale(i) ==
    /\ MatchIndex(crmEvents[i]) # 0
    /\ normalizeDateString(crmEvents[i].lastUpdatedDate) #
           normalizeDateString(
               umbracoEvents[MatchIndex(crmEvents[i])].lastUpdatedDate)

Synced(i) == ~Unmatched(i) /\ ~Stale(i)

\* status spells the word online in any mix of upper and lower case.
SpellsOnline(status) ==
    /\ Len(status) = Len(online)
    /\ \A i \in 1..Len(online) :
           status[i] \in {online[i],
                          CHOOSE u \in {"O", "N", "L", "I", "E"} :
                              LowerChar(u) = online[i]}

Qualifies(event, venue) ==
    /\ event.eventVenues \notin {Null, Undefined}
    /\ \E i \in 1..Len(event.eventVenues.arr) : event.eventVenues.arr[i] = venue
    /\ SpellsOnline(event.WebsiteStatus)

ExpectedFilter == SelectSeq(fEvents, LAMBDA e : Qualifies(e, fVenue))

(***************************************************************************)
(* C1 (as claimed).  With the CRM unchanged, every run after the first     *)
(* produces empty toCreate and toUpdate.                                   *)
(***************************************************************************)
C1_CrossRunIdempotent == runs >= 2 => syncResult = EmptySyncResult

\* C1, the part the code does keep: idempotence when no CRM marker is
\* wrapped in quotes.
C1_IdempotentForPlainMarkers ==
    (runs >= 2 /\ \A i \in 1..Len(crmEvents) :
                      Plain(crmEvents[i].lastUpdatedDate))
        => syncResult = EmptySyncResult

(***************************************************************************)
(* C2.  After compareEvents, toCreate is the CRM events without a CMS      *)
(* match, in input order; toUpdate is the CRM events whose match has a     *)
(* different quote-stripped marker, in input order, each paired with its   *)
(* match; no occurrence is in both; all synced gives two empty outputs.    *)
(***************************************************************************)
C2_Classification ==
    "compare" \in ran =>
        /\ syncResult.toCreate = Pick(crmEvents, Unmatched)
        /\ syncResult.toUpdate =
               LET idx == SelectSeq(Indices(crmEvents), Stale)
               IN  [k \in 1..Len(idx) |->
                       [umbracoEvent |->
                            umbracoEvents[MatchIndex(crmEvents[idx[k]])],
                        crmEvent |-> crmEvents[idx[k]]]]
        /\ \A i \in 1..Len(crmEvents) : ~(Unmatched(i) /\ Stale(i))
        /\ Len(syncResult.toCreate) + Len(syncResult.toUpdate)
               + Cardinality({i \in 1..Len(crmEvents) : Synced(i)})
             = Len(crmEvents)
        /\ (\A i \in 1..Len(crmEvents) : Synced(i))
               => syncResult = EmptySyncResult

\* C2 witness: one run with a created, an updated and a dropped event.
C2_Witness ==
    /\ "compare" \in ran
    /\ syncResult.toCreate # <<>>
    /\ syncResult.toUpdate # <<>>
    /\ \E i \in 1..Len(crmEvents) : Synced(i)

(***************************************************************************)
(* C3.  A matched pair of markers of the forms m / m-in-quotes.            *)
(***************************************************************************)
PairCase ==
    /\ "compare" \in ran
    /\ Len(crmEvents) = 1
    /\ Len(umbracoEvents) = 1
    /\ MatchIndex(crmEvents[1]) = 1

CrmMarker == crmEvents[1].lastUpdatedDate
CmsMarker == umbracoEvents[1].lastUpdatedDate

\* The markers m of which both sides can be a zero- or once-wrapped form.
Bases ==
    {m \in Markers \cup {Wrap(k) : k \in Markers}
               \cup {Wrap(Wrap(k)) : k \in Markers} :
        CrmMarker \in {m, Wrap(m)} /\ CmsMarker \in {m, Wrap(m)}}

DoublyWrappedAgainstBare ==
    \/ CrmMarker = Wrap(Wrap(CmsMarker))
    \/ CmsMarker = Wrap(Wrap(CrmMarker))

PairInToUpdate ==
    syncResult.toUpdate =
        <<[umbracoEvent |-> umbracoEvents[1], crmEvent |-> crmEvents[1]]>>

C4_FilterEveryImplementation ==
    /\ "filter" \in ran => fOut = ExpectedFilter
    /\ "legacy" \in ran => fOutLegacy = ExpectedFilter

\* C4 for the filter of event.utils.ts alone.
C4_FilterCurrent == "filter" \in ran => fOut = ExpectedFilter

(***************************************************************************)
(* C9.  buildSocialNetworksBlockList returns layout and contentData of the *)
(* same length n, the number of the five channels whose URL is present and *)
(* not blank; entry i of layout refers to entry i of contentData; the      *)
(* entries are those channels in the order facebook, linkedIn, instagram,  *)
(* youtube, tiktok.                                                        *)
(***************************************************************************)
ChannelOrder == <<"facebook", "linkedIn", "instagram", "youtube", "tiktok">>

ChannelName ==
    [facebook |-> "Facebook", linkedIn |-> "LinkedIn",
     instagram |-> "Instagram", youtube |-> "Youtube", tiktok |-> "TikTok"]

\* The URL of channel c is a string with a character that is not blank.
Populated(media, c) ==
    /\ media \notin {Null, Undefined}
    /\ media[c] \notin {Null, Undefined}
    /\ \E i \in 1..Len(media[c].str) : media[c].str[i] \notin WhiteSpace

PopulatedChannels(media) ==
    SelectSeq(ChannelOrder, LAMBDA c : Populated(media, c))

SocialListMatches(list, media) ==
    LET chans == PopulatedChannels(media)
    IN  /\ Len(LayoutOf(list)) = Len(chans)
        /\ Len(list.contentData) = Len(chans)
        /\ Len(chans) \in 0..5
        /\ \A i \in 1..Len(chans) :
               /\ LayoutOf(list)[i].contentUdi = list.contentData[i].udi
               /\ list.contentData[i].socialNetwork = <<ChannelName[chans[i]]>>
               /\ list.contentData[i].link[1].url = media[chans[i]]

C9_SocialCardinality ==
    "social" \in ran => SocialListMatches(socialOut, socialMedia)

\* C9 witness: only facebook and tiktok populated, two entries returned.
C9_Witness ==
    /\ "social" \in ran
    /\ PopulatedChannels(socialMedia) = <<"facebook", "tiktok">>
    /\ Len(socialOut.contentData) = 2
    /\ Len(LayoutOf(socialOut)) = 2

(***************************************************************************)
(* Vocabulary of the page-block properties.                                *)
(***************************************************************************)
Locales == {"en-US", "ar"}

\* The existing document has a page-block structure at all.
HasPageBlocks == "pageBlocks" \in DOMAIN mExisting

ExistingLocale(loc) == Get(mExisting.pageBlocks, loc)

UpdatedLocale(loc) == Get(updateOut.pageBlocks, loc)

\* A locale value that is an object with a contentData array.
HasContentData(list) ==
    list \notin {Null, Undefined} /\ "contentData" \in DOMAIN list

EventDescriptionPositions(list) ==
    {i \in 1..Len(list.contentData) :
        list.contentData[i].contentTypeKey = EventDescriptionTypeKey}

\* The position updatePageBlocks writes to: contentData[1] of the source,
\* the second entry.
DesignatedPosition == 2

CrmDerivedFields ==
    {"description", "organiserName", "organiserWebsite", "socialNetworks"}

\* new is old with nothing changed but CRM-derived fields of block i.
PreservedAround(old, new, i) ==
    /\ new.layout = old.layout
    /\ Len(new.contentData) = Len(old.contentData)
    /\ new.contentData[i].udi = old.contentData[i].udi
    /\ \A j \in 1..Len(old.contentData) :
           j # i => new.contentData[j] = old.contentData[j]
    /\ \A k \in (DOMAIN old.contentData[i] \cup DOMAIN new.contentData[i])
                    \ CrmDerivedFields :
           /\ k \in DOMAIN old.contentData[i]
           /\ k \in DOMAIN new.contentData[i]
           /\ new.contentData[i][k] = old.contentData[i][k]

(***************************************************************************)
(* C5 (as claimed).  When each locale of the existing structure holds an   *)
(* Event-Description block, at whatever position, updatePageBlocks returns *)
(* a structure with the layout unchanged, that block's identifier kept,    *)
(* every other block identical, and only description, organiserName,       *)
(* organiserWebsite and socialNetworks of that block changed.              *)
(***************************************************************************)
C5_AnyPosition ==
    ("update" \in ran /\ HasPageBlocks
        /\ \A loc \in Locales :
               /\ HasContentData(ExistingLocale(loc))
               /\ EventDescriptionPositions(ExistingLocale(loc)) # {})
    => /\ ~IsThrow(updateOut)
       /\ \A loc \in Locales :
              \A i \in EventDescriptionPositions(ExistingLocale(loc)) :
                  PreservedAround(ExistingLocale(loc), UpdatedLocale(loc), i)

\* C5 (amended): the same when the Event-Description block of each locale
\* is the second entry of contentData, the position updatePageBlocks
\* writes to.
C5_UpdatePreservation ==
    ("update" \in ran /\ HasPageBlocks
        /\ \A loc \in Locales :
               /\ HasContentData(ExistingLocale(loc))
               /\ DesignatedPosition
                      \in EventDescriptionPositions(ExistingLocale(loc)))
    => /\ ~IsThrow(updateOut)
       /\ \A loc \in Locales :
              PreservedAround(ExistingLocale(loc), UpdatedLocale(loc),
                              DesignatedPosition)

\* C5 witness: an update of an intact document whose Event-Description
\* blocks changed and kept their identifiers.
C5_Witness ==
    /\ "update" \in ran
    /\ HasPageBlocks
    /\ ~IsThrow(updateOut)
    /\ \A loc \in Locales :
           /\ HasContentData(ExistingLocale(loc))
           /\ Len(ExistingLocale(loc).contentData) >= 5
           /\ DesignatedPosition
                  \in EventDescriptionPositions(ExistingLocale(loc))
           /\ UpdatedLocale(loc).contentData[DesignatedPosition]
                  # ExistingLocale(loc).contentData[DesignatedPosition]
           /\ UpdatedLocale(loc).contentData[DesignatedPosition].udi
                  = ExistingLocale(loc).contentData[DesignatedPosition].udi

(***************************************************************************)
(* C6 (as claimed).  mapCrmEventForUpdate on a document whose pageBlocks   *)
(* is present returns a payload and never raises, however malformed the    *)
(* structure; a locale that lacks the designated position is carried       *)
(* through unmodified.                                                     *)
(***************************************************************************)
LacksDesignatedPosition(list) ==
    \/ ~HasContentData(list)
    \/ Len(list.contentData) < DesignatedPosition

C6_NeverFailsHard ==
    ("update" \in ran /\ HasPageBlocks)
    => /\ ~IsThrow(updateOut)
       /\ \A loc \in Locales :
              LacksDesignatedPosition(ExistingLocale(loc))
                  => UpdatedLocale(loc) = ExistingLocale(loc)

\* C6, the part the code does keep: it holds when both locale values are
\* objects (contentData missing or short included).
C6_ObjectLocales ==
    ("update" \in ran /\ HasPageBlocks
        /\ \A loc \in Locales : ExistingLocale(loc) \notin {Null, Undefined})
    => /\ ~IsThrow(updateOut)
       /\ \A loc \in Locales :
              LacksDesignatedPosition(ExistingLocale(loc))
                  => UpdatedLocale(loc) = ExistingLocale(loc)

(***************************************************************************)
(* C7 (as claimed).  In the structure buildPageBlocks returns, with a      *)
(* generator that never repeats a value, no identifier is carried by two   *)
(* block positions: the five en-US blocks, the six ar blocks and the       *)
(* Social-Network blocks nested in each locale's Event-Description block.  *)
(***************************************************************************)
Udis(blocks) == [i \in 1..Len(blocks) |-> blocks[i].udi]

PairwiseDistinct(s) == \A i, j \in 1..Len(s) : s[i] = s[j] => i = j

TopLevelUdis(pageBlocks) ==
    Udis(pageBlocks["en-US"].contentData) \o Udis(pageBlocks["ar"].contentData)

NestedSocialUdis(pageBlocks, loc) ==
    Udis(pageBlocks[loc].contentData[DesignatedPosition]
             .socialNetworks.contentData)

C7_AllIdentifiersDistinct ==
    "create" \in ran =>
        PairwiseDistinct(TopLevelUdis(createOut.pageBlocks)
                         \o NestedSocialUdis(createOut.pageBlocks, "en-US")
                         \o NestedSocialUdis(createOut.pageBlocks, "ar"))

\* C7, the part the code does keep: the eleven blocks of the two locales
\* and the nested blocks of one locale carry distinct identifiers.
C7_DistinctWithinLocale ==
    "create" \in ran =>
        /\ PairwiseDistinct(TopLevelUdis(createOut.pageBlocks)
                            \o NestedSocialUdis(createOut.pageBlocks, "en-US"))
        /\ PairwiseDistinct(TopLevelUdis(createOut.pageBlocks)
                            \o NestedSocialUdis(createOut.pageBlocks, "ar"))

(***************************************************************************)
(* C8.  In every block list of a created payload (the page blocks of both  *)
(* locales, organiserSocialNetworks and the Social-Networks list of each   *)
(* Event-Description block) every layout reference has exactly one         *)
(* contentData entry with that udi and every contentData entry is          *)
(* referenced exactly once; an update keeps this for the page blocks when  *)
(* the existing document had it.                                           *)
(***************************************************************************)
Closed(list) ==
    /\ \A i \in 1..Len(LayoutOf(list)) :
           Cardinality({j \in 1..Len(list.contentData) :
                           list.contentData[j].udi
                               = LayoutOf(list)[i].contentUdi}) = 1
    /\ \A j \in 1..Len(list.contentData) :
           Cardinality({i \in 1..Len(LayoutOf(list)) :
                           LayoutOf(list)[i].contentUdi
                               = list.contentData[j].udi}) = 1

ClosedLocale(list) ==
    /\ HasContentData(list)
    /\ "layout" \in DOMAIN list
    /\ Closed(list)

C8_ReferentialClosure ==
    /\ "create" \in ran =>
           /\ \A loc \in Locales :
                  /\ Closed(createOut.pageBlocks[loc])
                  /\ Closed(createOut.pageBlocks[loc]
                                .contentData[DesignatedPosition].socialNetworks)
           /\ Closed(createOut.organiserSocialNetworks["$invariant"])
    /\ ("update" \in ran /\ HasPageBlocks
           /\ \A loc \in Locales : ClosedLocale(ExistingLocale(loc)))
       => /\ ~IsThrow(updateOut)
          /\ \A loc \in Locales : ClosedLocale(UpdatedLocale(loc))

\* C8 witness: a created payload with social blocks, and an update of a
\* closed existing document whose Event-Description block was rewritten.
C8_Witness ==
    /\ "create" \in ran
    /\ Len(createOut.organiserSocialNetworks["$invariant"].contentData) = 2
    /\ Len(createOut.pageBlocks["ar"].contentData) = 6
    /\ "update" \in ran
    /\ HasPageBlocks
    /\ \A loc \in Locales : ClosedLocale(ExistingLocale(loc))
    /\ UpdatedLocale("ar") # ExistingLocale("ar")

(***************************************************************************)
(* C10 (as claimed).  The created payload has a parentId field, equal to   *)
(* the argument, if and only if a parentId argument was supplied.          *)
(***************************************************************************)
C10_ParentIdIffSupplied ==
    "create" \in ran =>
        /\ "parentId" \in DOMAIN createOut <=> mParentId # Undefined
        /\ "parentId" \in DOMAIN createOut => createOut.parentId = mParentId

\* C10 (amended): if and only if a non-empty parentId was supplied.
C10_ParentIdIffNonEmpty ==
    "create" \in ran =>
        /\ "parentId" \in DOMAIN createOut
               <=> (mParentId # Undefined /\ mParentId # Str(<<>>))
        /\ "parentId" \in DOMAIN createOut => createOut.parentId = mParentId

\* C10 witness: a payload created with parentId 123 carries it.
C10_Witness ==
    /\ "create" \in ran
    /\ mParentId = Str(<<"1", "2", "3">>)
    /\ "parentId" \in DOMAIN createOut
    /\ createOut.parentId = mParentId

(***************************************************************************)
(* Vocabulary of the payload comparison.                                   *)
(***************************************************************************)
\* A block list with the identifiers taken out: what is left of it up to
\* the choice of identifiers.
UpToIdentifiers(list) ==
    [settingsData |-> list.settingsData,
     paired |-> \A i \in 1..Len(list.contentData) :
                    /\ i <= Len(LayoutOf(list))
                    /\ LayoutOf(list)[i].contentUdi = list.contentData[i].udi,
     references |-> Len(LayoutOf(list)),
     contentData |-> [i \in 1..Len(list.contentData) |->
                         DeleteField(list.contentData[i], "udi")]]

\* The two payloads agree on the keys of fields, organiserSocialNetworks up
\* to its identifiers.
SameFields(fields) ==
    \A k \in fields :
        IF k = "organiserSocialNetworks"
        THEN UpToIdentifiers(createOut[k]["$invariant"])
                 = UpToIdentifiers(updateOut[k]["$invariant"])
        ELSE createOut[k] = updateOut[k]

BothMapped ==
    /\ "create" \in ran
    /\ "update" \in ran
    /\ ~IsThrow(updateOut)

WebsiteFieldAsClaimed(payload) ==
    IF mEvent.websiteURL \in {Null, Undefined, Str(<<>>)}
    THEN "organiserWebsite" \notin DOMAIN payload
    ELSE /\ "organiserWebsite" \in DOMAIN payload
         /\ Len(payload.organiserWebsite["$invariant"]) = 1
         /\ payload.organiserWebsite["$invariant"][1].url = mEvent.websiteURL

C12_WebsiteEveryImplementation ==
    /\ "create" \in ran => WebsiteFieldAsClaimed(createOut)
    /\ ("update" \in ran /\ ~IsThrow(updateOut))
           => WebsiteFieldAsClaimed(updateOut)
    /\ "createLegacy" \in ran => WebsiteFieldAsClaimed(legacyOut)

\* C12, the part the code does keep: the two mappers of event.utils.ts.
C12_WebsiteCurrent ==
    /\ "create" \in ran => WebsiteFieldAsClaimed(createOut)
    /\ ("update" \in ran /\ ~IsThrow(updateOut))
           => WebsiteFieldAsClaimed(updateOut)

(***************************************************************************)
(* Vocabulary of the identifier shape.                                     *)
(***************************************************************************)
LowerHex ==
    {"0", "1", "2", "3", "4", "5", "6", "7", "8", "9",
     "a", "b", "c", "d", "e", "f"}

HyphenPositions == {9, 14, 19, 24}

\* The n-th hexadecimal digit of a hyphenated identifier g.
HexDigitAt(g, n) ==
    g[CHOOSE i \in 1..Len(g) :
          /\ i \notin HyphenPositions
          /\ Cardinality({j \in 1..i : j \notin HyphenPositions}) = n]

HyphenatedShape(g) ==
    /\ Len(g) = 36
    /\ \A i \in 1..Len(g) :
           IF i \in HyphenPositions THEN g[i] = "-" ELSE g[i] \in LowerHex
    /\ HexDigitAt(g, 13) = "4"
    /\ HexDigitAt(g, 17) \in {"8", "9", "a", "b"}

\* u is umb://element/ followed by the 32 hexadecimal digits of g.
UriFormOf(u, g) ==
    /\ Len(u) = Len(UdiPrefix) + 32
    /\ SubSeq(u, 1, Len(UdiPrefix)) = UdiPrefix
    /\ \A n \in 1..32 :
           /\ u[Len(UdiPrefix) + n] = HexDigitAt(g, n)
           /\ u[Len(UdiPrefix) + n] # "-"

(***************************************************************************)
(* C13.  Whatever the random source draws, generateGuid returns 36         *)
(* characters, lowercase hexadecimal digits with hyphens after the 8th,    *)
(* 12th, 16th and 20th digit, the 13th digit 4 and the 17th one of 8, 9,   *)
(* a, b; the URI form is umb://element/ followed by the 32 digits without  *)
(* hyphen.                                                                 *)
(***************************************************************************)
C13_IdentifierShape ==
    "guid" \in ran =>
        /\ HyphenatedShape(guidOut)
        /\ UriFormOf(UdiOf(guidOut), guidOut)

\* C13 witness: an identifier whose variant digit is b, from a draw of 15.
C13_Witness ==
    /\ "guid" \in ran
    /\ draws[16] = 15
    /\ HexDigitAt(guidOut, 17) = "b"
    /\ HexDigitAt(guidOut, 1) = "f"

\* C13 in the payloads: every block identifier of a created payload is the
\* URI form of a hyphenated identifier of that shape.
C13_BlockIdentifiers ==
    "create" \in ran =>
        \A loc \in Locales :
            \A i \in 1..Len(createOut.pageBlocks[loc].contentData) :
                LET u == createOut.pageBlocks[loc].contentData[i].udi
                IN  /\ Len(u) = Len(UdiPrefix) + 32
                    /\ SubSeq(u, 1, Len(UdiPrefix)) = UdiPrefix
                    /\ \A n \in 1..32 : u[Len(UdiPrefix) + n] \in LowerHex
                    /\ u[Len(UdiPrefix) + 13] = "4"
                    /\ u[Len(UdiPrefix) + 17] \in {"8", "9", "a", "b"}

(***************************************************************************)
(* C14 (as claimed).  A matched pair that carries one timestamp t, one     *)
(* side with a quote character on one end only, the other side t bare, in  *)
(* quotes or malformed too: compareEvents strips the quote characters and  *)
(* drops the pair as synchronized.                                         *)
(***************************************************************************)
QuoteFree(t) == \A i \in 1..Len(t) : t[i] # Quote

OneEndQuoted(t) == {<<Quote>> \o t, t \o <<Quote>>}

\* The timestamps the pair carries with malformed quoting on some side.
MalformedTimestamps ==
    {t \in Markers :
        /\ t # <<>>
        /\ QuoteFree(t)
        /\ {CrmMarker, CmsMarker} \subseteq {t, Wrap(t)} \cup OneEndQuoted(t)
        /\ {CrmMarker, CmsMarker} \cap OneEndQuoted(t) # {}}

C14_MalformedQuotingNormalized ==
    (PairCase /\ MalformedTimestamps # {}) => syncResult = EmptySyncResult

\* C14, what the code does with such a pair: it is dropped exactly when
\* the two markers are the same string, quote characters included.
C14_MalformedComparedAsWritten ==
    (PairCase /\ MalformedTimestamps # {}) =>
        /\ syncResult.toCreate = <<>>
        /\ (syncResult.toUpdate = <<>>) <=> (CrmMarker = CmsMarker)
        /\ \A t \in MalformedTimestamps :
               \A m \in OneEndQuoted(t) : normalizeDateString(m) = m

(***************************************************************************)
(* C15.  When several CMS events have the same eventId, compareEvents      *)
(* uses the one latest in the CMS input: its marker is the one compared,   *)
(* it is the record of the toUpdate pair, and no earlier duplicate is in   *)
(* the output.                                                             *)
(***************************************************************************)
\* CMS record j is followed by another one with the same eventId.
Superseded(j) ==
    \E k \in (j + 1)..Len(umbracoEvents) :
        umbracoEvents[k].eventId = umbracoEvents[j].eventId

\* The position of the latest CMS record with the id of CRM event e, or 0.
LatestWithId(e) ==
    IF \E j \in 1..Len(umbracoEvents) :
           umbracoEvents[j].eventId = NumberToString(e.eventId)
    THEN CHOOSE j \in 1..Len(umbracoEvents) :
             /\ umbracoEvents[j].eventId = NumberToString(e.eventId)
             /\ ~Superseded(j)
    ELSE 0

InToUpdate(e) ==
    \E k \in 1..Len(syncResult.toUpdate) : syncResult.toUpdate[k].crmEvent = e

C15_LastDuplicateWins ==
    "compare" \in ran =>
        /\ \A k \in 1..Len(syncResult.toUpdate) :
               /\ LatestWithId(syncResult.toUpdate[k].crmEvent) # 0
               /\ syncResult.toUpdate[k].umbracoEvent =
                      umbracoEvents[
                          LatestWithId(syncResult.toUpdate[k].crmEvent)]
        /\ \A j \in 1..Len(umbracoEvents) :
               Superseded(j) =>
                   \A k \in 1..Len(syncResult.toUpdate) :
                       syncResult.toUpdate[k].umbracoEvent # umbracoEvents[j]
        /\ \A i \in 1..Len(crmEvents) :
               LatestWithId(crmEvents[i]) # 0 =>
                   (InToUpdate(crmEvents[i]) <=>
                        normalizeDateString(crmEvents[i].lastUpdatedDate) #
                            normalizeDateString(
                                umbracoEvents[LatestWithId(crmEvents[i])]
                                    .lastUpdatedDate))

\* C15 witness: two CMS records with one eventId and different markers; a
\* CRM event equal to the earlier one is paired with the later one, and a
\* CRM event equal to the later one is dropped.
C15_Witness ==
    /\ "compare" \in ran
    /\ Len(umbracoEvents) = 2
    /\ Superseded(1)
    /\ normalizeDateString(umbracoEvents[1].lastUpdatedDate)
           # normalizeDateString(umbracoEvents[2].lastUpdatedDate)
    /\ \E i, j \in 1..Len(crmEvents) :
           /\ crmEvents[i].lastUpdatedDate = umbracoEvents[1].lastUpdatedDate
           /\ crmEvents[j].lastUpdatedDate = umbracoEvents[2].lastUpdatedDate
           /\ LatestWithId(crmEvents[i]) = 2
           /\ LatestWithId(crmEvents[j]) = 2
           /\ InToUpdate(crmEvents[i])
           /\ ~InToUpdate(crmEvents[j])
    /\ syncResult.toUpdate[1].umbracoEvent = umbracoEvents[2]

(***************************************************************************)
(* C16.  For an existing document without pageBlocks the update payload    *)
(* carries a newly built structure of the shape the create path builds:    *)
(* en-US has Hero-Image, Event-Description, Getting-Here, Destination-     *)
(* Dubai list, Destination-Dubai card; ar has the same with an Image-      *)
(* Gallery block third; layout order is contentData order.                 *)
(***************************************************************************)
TypeKeys(list) ==
    [i \in 1..Len(list.contentData) |-> list.contentData[i].contentTypeKey]

LayoutFollowsContent(list) ==
    /\ Len(LayoutOf(list)) = Len(list.contentData)
    /\ \A i \in 1..Len(list.contentData) :
           LayoutOf(list)[i].contentUdi = list.contentData[i].udi

EnglishShape ==
    <<HeroImageTypeKey, EventDescriptionTypeKey, ContentCardTypeKey,
      DestinationListTypeKey, ContentCardTypeKey>>

ArabicShape ==
    <<HeroImageTypeKey, EventDescriptionTypeKey, ImageGalleryTypeKey,
      ContentCardTypeKey, DestinationListTypeKey, ContentCardTypeKey>>

C16_FallbackShape ==
    ("update" \in ran /\ ~HasPageBlocks) =>
        /\ ~IsThrow(updateOut)
        /\ TypeKeys(updateOut.pageBlocks["en-US"]) = EnglishShape
        /\ TypeKeys(updateOut.pageBlocks["ar"]) = ArabicShape
        /\ updateOut.pageBlocks["en-US"].contentData[3].title = "Getting Here"
        /\ updateOut.pageBlocks["en-US"].contentData[5].title
               = "Destination Dubai"
        /\ \A loc \in Locales : LayoutFollowsContent(updateOut.pageBlocks[loc])
        /\ "create" \in ran =>
               \A loc \in Locales :
                   TypeKeys(updateOut.pageBlocks[loc])
                       = TypeKeys(createOut.pageBlocks[loc])

\* C16 witness: an update of a document without pageBlocks, after a create
\* of the same event, with blocks under identifiers of their own.
C16_Witness ==
    /\ "update" \in ran
    /\ "create" \in ran
    /\ ~HasPageBlocks
    /\ Len(updateOut.pageBlocks["en-US"].contentData) = 5
    /\ Len(updateOut.pageBlocks["ar"].contentData) = 6
    /\ updateOut.pageBlocks["ar"].contentData[3].contentTypeKey
           = ImageGalleryTypeKey
    /\ updateOut.pageBlocks["ar"].contentData[3].udi
           # createOut.pageBlocks["ar"].contentData[3].udi

(***************************************************************************)
(* C17.  Over any sequence of runs with a changing CRM whose feeds have    *)
(* distinct eventIds, the CMS storing every created payload: no eventId    *)
(* is created twice, whatever becomes of its marker, and the CMS holds at  *)
(* most one document per eventId.                                          *)
(***************************************************************************)
C17_NoDuplicateCreation ==
    /\ PairwiseDistinct(created)
    /\ \A i \in 1..Len(created) :
           \E j \in 1..Len(umbracoEvents) : umbracoEvents[j].eventId = created[i]
    /\ DistinctIds(umbracoEvents)

\* C17 witness: an event created in an earlier run comes back with another
\* marker in a later run and is paired for update, not created.
C17_Witness ==
    /\ runs >= 2
    /\ Len(created) = 2
    /\ syncResult.toCreate = <<>>
    /\ \E k \in 1..Len(syncResult.toUpdate) :
           /\ PayloadEventId(syncResult.toUpdate[k].crmEvent) = created[1]
           /\ syncResult.toUpdate[k].crmEvent.lastUpdatedDate = <<"b">>

(***************************************************************************)
(* C18.  updatePageBlocks works on a deep copy: after                      *)
(* mapCrmEventForUpdate has returned, and after the caller has changed     *)
(* the locale structures of the returned payload, the existing CMS         *)
(* document (its pageBlocks for both locales, every block and every        *)
(* nested field) and the CRM event are as they were passed in, and no      *)
(* object of the returned locales is an object of the existing document    *)
(* or the CRM event.                                                       *)
(***************************************************************************)
ExistingObjects ==
    IF "pageBlocks" \in DOMAIN ExistingStored.value
    THEN UNION {Reachable(heap, ExistingStored.value.pageBlocks[k]) :
                    k \in DOMAIN ExistingStored.value.pageBlocks}
    ELSE {}

ExistingAsPassed ==
    "pageBlocks" \in DOMAIN mExisting
        => LoadPageBlocks(heap, ExistingStored.value.pageBlocks)
               = mExisting.pageBlocks

\* The call on objects returns what the call on values returns.
ReturnedAsComputed ==
    (("update" \in ran \/ IsThrow(returned)) /\ "change" \notin ran)
        => IF IsThrow(updateOut) THEN returned = updateOut
           ELSE [returned EXCEPT !.pageBlocks = LoadPageBlocks(heap, @)]
                    = updateOut

C18_WorksOnDeepCopy ==
    /\ ExistingAsPassed
    /\ heap[CrmAddress] = mEvent
    /\ ReturnedObjects \cap (ExistingObjects \cup {CrmAddress}) = {}
    /\ ReturnedAsComputed

\* The update has replaced the fields of the copy's Event Description block
\* in both locales, the caller has then changed the returned payload, and
\* the existing document has its blocks in both locales.
C18_Witness ==
    /\ {"update", "change"} \subseteq ran
    /\ "pageBlocks" \in DOMAIN mExisting
    /\ "pageBlocks" \in DOMAIN updateOut
    /\ \A k \in {"en-US", "ar"} :
           /\ k \in DOMAIN mExisting.pageBlocks
           /\ mExisting.pageBlocks[k] \notin {Null, Undefined}
           /\ "contentData" \in DOMAIN mExisting.pageBlocks[k]
           /\ Len(mExisting.pageBlocks[k].contentData) >= 2
           /\ updateOut.pageBlocks[k] # mExisting.pageBlocks[k]
    /\ LoadPageBlocks(heap, returned.pageBlocks) # updateOut.pageBlocks
    /\ ExistingAsPassed

====
